---- MODULE Spec2Model ----
(***************************************************************************)
(* Speaker-transcript fusion and identification (meetai).                  *)
(*                                                                         *)
(* The model follows buildspeakertraans.py (main, load_rttm,               *)
(* load_transcript, build_speaker_name_map, find_speaker) and              *)
(* speakerrecogniser.py (identify_speaker).                                *)
(*                                                                         *)
(* Units.  Times are integers in milliseconds, cosine distances are        *)
(* integers in hundredths (0 .. 200 for the range [0,2]), audio is         *)
(* represented by its number of samples and a slice by its length.         *)
(* The embedding network is external: a call to it is modelled by the      *)
(* vector of cosine distances between the embedding it returns and the     *)
(* reference embeddings, chosen nondeterministically.                      *)
(***************************************************************************)
EXTENDS Integers, Sequences, FiniteSets, TLC

VARIABLES
    pc,               \* position of the run inside main()
    rttm_file,        \* records of outputs/diarization.rttm
    transcript_file,  \* lines of outputs/transcript.txt
    sr,               \* sample rate returned by sf.read
    audio_len,        \* len(audio), in samples
    SPEAKERS,         \* names of the enrollment database, in dict order
    threshold,        \* acceptance threshold used by identify_speaker
    diar_segments,    \* load_rttm's result: <<[spk, segs]>> in insertion order
    transcript,       \* load_transcript's result
    speaker_map,      \* build_speaker_name_map's dict, label -> name
    spk_i,            \* outer loop of build_speaker_name_map: index of the label
    seg_i,            \* inner loop: index of the interval
    samples,          \* the list `samples`, one slice length per element
    clips,            \* label -> len(clip) handed to identify_speaker
    identify_calls,   \* number of calls of identify_speaker so far
    line_i,           \* loop of main over the transcript
    spk_ids,          \* the values spk_id took, one per fused utterance
    lines,            \* the list `lines`
    output,           \* content of outputs/speaker_transcript.txt, or NoFile
    exit_code,        \* process exit status, or Running
    query_dists,      \* identify_speaker: distances of the query to each reference
    match_result,     \* identify_speaker: the value returned
    clip_ranges,      \* the list `samples`, as the sample ranges the slices cover
    embedded,         \* clips the encoder has embedded so far -> their distances
    orc_pc,           \* orcastrate.py, step 3: position of the run
    diar,             \* orcastrate.py: load_rttm's result, a list of segments
    trans,            \* orcastrate.py: load_transcript's result
    orc_speakers,     \* orcastrate.py: the values `speaker` took, one per line
    orc_lines,        \* orcastrate.py: the list `lines`
    orc_output        \* orcastrate.py: content of SPEAKER_TXT_FILE, or NoFile

vars == <<pc, rttm_file, transcript_file, sr, audio_len, SPEAKERS, threshold,
          diar_segments, transcript, speaker_map, spk_i, seg_i, samples, clips,
          identify_calls, line_i, spk_ids, lines, output, exit_code,
          query_dists, match_result, clip_ranges, embedded,
          orc_pc, diar, trans, orc_speakers, orc_lines, orc_output>>

orc_vars == <<orc_pc, diar, trans, orc_speakers, orc_lines, orc_output>>

----------------------------------------------------------------------------
(* Program constants *)

SAMPLE_RATE == 16000

THRESHOLD == 70

MinFields == 8

CapSeconds == 15

NoFile == "NoFile"

Running == "Running"

NoResult == <<>>

EmptyMap == [x \in {} |-> "Unknown"]

(* The four range separators load_transcript's pattern accepts. *)
ArrowGlyphs == {"arrow", "ascii_arrow", "en_dash", "hyphen"}

----------------------------------------------------------------------------
(* Bounds of the model *)

MaxRttm == 2

MaxTranscript == 2

MaxSegs == 3

MaxEnrollSegs == 3

MaxEnroll == 3

----------------------------------------------------------------------------
(* Helpers *)

Min(a, b) == IF a < b THEN a ELSE b

Max(a, b) == IF a > b THEN a ELSE b

RECURSIVE SumSeq(_)
SumSeq(s) == IF s = <<>> THEN 0 ELSE Head(s) + SumSeq(Tail(s))

SeqsUpTo(S, n) == UNION {[1..k -> S] : k \in 0..n}

----------------------------------------------------------------------------
(* load_rttm *)

rttm_valid(p) == ~(p.nf < MinFields)

add_segment(segments, spk, iv) ==
    IF \E k \in 1..Len(segments) : segments[k].spk = spk
    THEN [k \in 1..Len(segments) |->
            IF segments[k].spk = spk
            THEN [segments[k] EXCEPT !.segs = Append(@, iv)]
            ELSE segments[k]]
    ELSE Append(segments, [spk |-> spk, segs |-> <<iv>>])

RECURSIVE rttm_loop(_, _)
rttm_loop(file, segments) ==
    IF file = <<>> THEN segments
    ELSE LET p == Head(file) IN
         IF rttm_valid(p)
         THEN rttm_loop(Tail(file),
                        add_segment(segments, p.spk, <<p.start, p.start + p.dur>>))
         ELSE rttm_loop(Tail(file), segments)

load_rttm(file) == rttm_loop(file, <<>>)

(* variant: the empty-diarization check is skipped *)
rttm_empty_skipped(segments) == FALSE

rttm_empty(segments) == segments = <<>>

----------------------------------------------------------------------------
(* load_transcript *)

line_matches(l) == l.sep \in ArrowGlyphs /\ l.text # ""

RECURSIVE load_transcript(_)
load_transcript(file) ==
    IF file = <<>> THEN <<>>
    ELSE LET l == Head(file) IN
         IF line_matches(l)
         THEN <<[start |-> l.start, end |-> l.end, text |-> l.text]>>
              \o load_transcript(Tail(file))
         ELSE load_transcript(Tail(file))

transcript_empty(chunks) == chunks = <<>>

----------------------------------------------------------------------------
(* identify_speaker *)

RECURSIVE match_loop(_, _, _, _, _)
match_loop(dists, names, i, best_name, best_score) ==
    IF i > Len(names) THEN <<best_name, best_score>>
    ELSE IF dists[i] < best_score
         THEN match_loop(dists, names, i + 1, names[i], dists[i])
         ELSE match_loop(dists, names, i + 1, best_name, best_score)

(* variant: rejection at equality *)
rejected_inclusive(best_score, thr) == best_score >= thr

rejected(best_score, thr) == best_score > thr

(* best_score starts at 1.0, i.e. 100 hundredths *)
identify_speaker(dists, names, thr) ==
    LET r == match_loop(dists, names, 1, "Unknown", 100) IN
    IF rejected(r[2], thr) THEN <<"Unknown", r[2]>> ELSE r

----------------------------------------------------------------------------
(* build_speaker_name_map *)

(* int(t * SAMPLE_RATE) for a time t in milliseconds *)
to_sample(t) == (t * SAMPLE_RATE) \div 1000

slice_index(i, n) ==
    IF i < 0 THEN (IF i + n < 0 THEN 0 ELSE i + n)
    ELSE (IF i > n THEN n ELSE i)

(* len(audio[s:e]) for an audio of n samples *)
slice_len(s, e, n) ==
    LET a == slice_index(s, n)
        b == slice_index(e, n)
    IN IF b > a THEN b - a ELSE 0

(* variant: the loop stops on reaching the cap *)
cap_exceeded_inclusive(total) == total >= SAMPLE_RATE * CapSeconds

cap_exceeded(total) == total > SAMPLE_RATE * CapSeconds

(* the inner loop as a whole: the slice lengths consumed for one label *)
RECURSIVE accumulate(_, _, _)
accumulate(segs, n, acc) ==
    IF segs = <<>> THEN acc
    ELSE LET new == Append(acc, slice_len(to_sample(Head(segs)[1]),
                                          to_sample(Head(segs)[2]), n))
         IN IF cap_exceeded(SumSeq(new)) THEN new
            ELSE accumulate(Tail(segs), n, new)

map_put(m, k, v) == [x \in DOMAIN m \cup {k} |-> IF x = k THEN v ELSE m[x]]

----------------------------------------------------------------------------
(* find_speaker *)

(* variant: the overlap is measured from the earlier of the two starts *)
overlap_of_union(start, end, s, e) == Min(end, e) - Min(start, s)

overlap_of(start, end, s, e) == Min(end, e) - Max(start, s)

(* variant: an overlap of zero counts as an overlap *)
better_nonneg(overlap, best_overlap) == overlap >= best_overlap /\ overlap >= 0

(* variant: an equal overlap replaces the current best *)
better_or_equal(overlap, best_overlap) == overlap >= best_overlap /\ overlap > 0

better(overlap, best_overlap) == overlap > best_overlap /\ overlap > 0

RECURSIVE flatten(_)
flatten(segments) ==
    IF segments = <<>> THEN <<>>
    ELSE [k \in 1..Len(Head(segments).segs) |->
            [spk |-> Head(segments).spk,
             s |-> Head(segments).segs[k][1],
             e |-> Head(segments).segs[k][2]]]
         \o flatten(Tail(segments))

RECURSIVE find_loop(_, _, _, _, _)
find_loop(start, end, flat, best_spk, best_overlap) ==
    IF flat = <<>> THEN best_spk
    ELSE LET overlap == overlap_of(start, end, Head(flat).s, Head(flat).e) IN
         IF better(overlap, best_overlap)
         THEN find_loop(start, end, Tail(flat), Head(flat).spk, overlap)
         ELSE find_loop(start, end, Tail(flat), best_spk, best_overlap)

find_speaker(start, end, segments) ==
    find_loop(start, end, flatten(segments), "UNKNOWN", 0)

----------------------------------------------------------------------------
(* main: the fused line *)

(* "{t:.2f}": a time in milliseconds rendered in hundredths of a second *)
fmt2(t) == (t + 5) \div 10

(* variant: a missing label falls back to the matcher's sentinel *)
map_get_sentinel(m, k, default) == IF k \in DOMAIN m THEN m[k] ELSE "Unknown"

map_get(m, k, default) == IF k \in DOMAIN m THEN m[k] ELSE default

fused_line(t, spk_name) ==
    [start |-> fmt2(t.start), end |-> fmt2(t.end),
     name |-> spk_name, text |-> t.text]

(* variant: utterances without a speaker are left out *)
append_line_known(ls, l) == IF l.name = "UNKNOWN" THEN ls ELSE Append(ls, l)

append_line(ls, l) == Append(ls, l)

----------------------------------------------------------------------------
(* Inputs *)

Labels == {"SPEAKER_00", "SPEAKER_01"}

Names == <<"Alice", "Bob", "Carol", "Dave", "Erin">>

(* cosine distances, in hundredths, over the range [0,2] *)
Dists == {0, 30, 70, 71, 100, 120, 150, 200}

Thresholds == {0, THRESHOLD, 100, 150, 200}

Rates == {SAMPLE_RATE, 8000}

(* 5 s and 20 s of audio *)
AudioLens == {5 * SAMPLE_RATE, 20 * SAMPLE_RATE}

rec(nf, start, dur, spk) == [nf |-> nf, start |-> start, dur |-> dur, spk |-> spk]

RttmRecords ==
    { rec(7, 0, 7500, "SPEAKER_00"),
      rec(10, 0, 7500, "SPEAKER_00"),
      rec(10, 7500, 7500, "SPEAKER_01"),
      rec(10, 3000, 0, "SPEAKER_01") }

(* a transcript line "[<start> <sep> <end>] <text>": written without blanks    *)
(* after "[" and with both numbers carrying decimals                           *)
tline(sep, start, end, text) ==
    [sep |-> sep, start |-> start, end |-> end, text |-> text,
     pad |-> FALSE, frac |-> TRUE]

TranscriptLines ==
    { tline("none", 0, 0, "header"),
      tline("arrow", 0, 4004, "a"),
      tline("hyphen", 4004, 11006, "b"),
      tline("en_dash", 20000, 21000, "c") }

DistVectors(names) == [1..Len(names) -> Dists]

----------------------------------------------------------------------------
(* main *)

(* orcastrate.py is not running *)
OrcIdle ==
    /\ orc_pc = "idle"
    /\ diar = <<>>
    /\ trans = <<>>
    /\ orc_speakers = <<>>
    /\ orc_lines = <<>>
    /\ orc_output = NoFile

Init ==
    /\ pc = "load_rttm"
    /\ rttm_file \in SeqsUpTo(RttmRecords, MaxRttm)
    /\ transcript_file \in SeqsUpTo(TranscriptLines, MaxTranscript)
    /\ sr \in Rates
    /\ audio_len \in AudioLens
    /\ SPEAKERS = SubSeq(Names, 1, 2)
    /\ threshold = THRESHOLD
    /\ diar_segments = <<>>
    /\ transcript = <<>>
    /\ speaker_map = EmptyMap
    /\ spk_i = 1
    /\ seg_i = 1
    /\ samples = <<>>
    /\ clips = EmptyMap
    /\ identify_calls = 0
    /\ line_i = 1
    /\ spk_ids = <<>>
    /\ lines = <<>>
    /\ output = NoFile
    /\ exit_code = Running
    /\ query_dists = <<>>
    /\ match_result = NoResult
    /\ clip_ranges = <<>>
    /\ embedded = EmptyMap
    /\ OrcIdle

(* sample range covered by audio[s:e] for an audio of n samples *)
slice_range(s, e, n) ==
    LET a == slice_index(s, n)
        b == slice_index(e, n)
    IN IF b > a THEN <<a, b>> ELSE <<0, 0>>

(* variant: the list is carried over from one label to the next *)
kept_list(old) == old

(* samples = [] at the top of the loop over the labels *)
fresh_list(old) == <<>>

(* fail(msg): sys.exit(1) *)
fail ==
    /\ pc' = "exit"
    /\ exit_code' = 1

sr_mismatch(rate) == rate # SAMPLE_RATE

LoadRttm ==
    /\ pc = "load_rttm"
    /\ diar_segments' = load_rttm(rttm_file)
    /\ IF rttm_empty(diar_segments')
       THEN fail
       ELSE pc' = "load_transcript" /\ UNCHANGED exit_code
    /\ UNCHANGED <<rttm_file, transcript_file, sr, audio_len, SPEAKERS, threshold,
                   transcript, speaker_map, spk_i, seg_i, samples, clips,
                   identify_calls, line_i, spk_ids, lines, output,
                   query_dists, match_result>>
    /\ UNCHANGED <<clip_ranges, embedded, orc_vars>>

LoadTranscript ==
    /\ pc = "load_transcript"
    /\ transcript' = load_transcript(transcript_file)
    /\ IF transcript_empty(transcript')
       THEN fail
       ELSE pc' = "read_audio" /\ UNCHANGED exit_code
    /\ UNCHANGED <<rttm_file, transcript_file, sr, audio_len, SPEAKERS, threshold,
                   diar_segments, speaker_map, spk_i, seg_i, samples, clips,
                   identify_calls, line_i, spk_ids, lines, output,
                   query_dists, match_result>>
    /\ UNCHANGED <<clip_ranges, embedded, orc_vars>>

(* sf.read, the sample-rate check, and the entry of build_speaker_name_map *)
ReadAudio ==
    /\ pc = "read_audio"
    /\ IF sr_mismatch(sr)
       THEN fail
       ELSE /\ pc' = IF diar_segments = <<>> THEN "fuse" ELSE "slice"
            /\ UNCHANGED exit_code
    /\ UNCHANGED <<rttm_file, transcript_file, sr, audio_len, SPEAKERS, threshold,
                   diar_segments, transcript, speaker_map, spk_i, seg_i, samples,
                   clips, identify_calls, line_i, spk_ids, lines, output,
                   query_dists, match_result>>
    /\ UNCHANGED <<clip_ranges, embedded, orc_vars>>

(* one iteration of the inner loop of build_speaker_name_map *)
AppendSlice ==
    /\ pc = "slice"
    /\ LET segs == diar_segments[spk_i].segs
           s == to_sample(segs[seg_i][1])
           e == to_sample(segs[seg_i][2])
       IN /\ samples' = Append(samples, slice_len(s, e, audio_len))
          /\ clip_ranges' = Append(clip_ranges, slice_range(s, e, audio_len))
          /\ IF cap_exceeded(SumSeq(samples')) \/ seg_i = Len(segs)
             THEN pc' = "identify" /\ UNCHANGED seg_i
             ELSE pc' = "slice" /\ seg_i' = seg_i + 1
    /\ UNCHANGED <<rttm_file, transcript_file, sr, audio_len, SPEAKERS, threshold,
                   diar_segments, transcript, speaker_map, spk_i, clips,
                   identify_calls, line_i, spk_ids, lines, output, exit_code,
                   query_dists, match_result>>
    /\ UNCHANGED <<embedded, orc_vars>>

(* np.concatenate, identify_speaker(clip) returning, speaker_map[spk] = name *)
Identify ==
    /\ pc = "identify"
    /\ \E dists \in DistVectors(SPEAKERS) :
          speaker_map' = map_put(speaker_map, diar_segments[spk_i].spk,
                                 identify_speaker(dists, SPEAKERS, threshold)[1])
    /\ clips' = map_put(clips, diar_segments[spk_i].spk, SumSeq(samples))
    /\ identify_calls' = identify_calls + 1
    /\ samples' = fresh_list(samples)
    /\ clip_ranges' = fresh_list(clip_ranges)
    /\ seg_i' = 1
    /\ IF spk_i < Len(diar_segments)
       THEN pc' = "slice" /\ spk_i' = spk_i + 1
       ELSE pc' = "fuse" /\ spk_i' = 1
    /\ UNCHANGED <<rttm_file, transcript_file, sr, audio_len, SPEAKERS, threshold,
                   diar_segments, transcript, line_i, spk_ids, lines, output,
                   exit_code, query_dists, match_result>>
    /\ UNCHANGED <<embedded, orc_vars>>

(* identify_speaker(clip) on an empty clip: the encoder's behaviour on a      *)
(* zero-length buffer is undefined; besides returning some embedding          *)
(* (Identify) it may raise, and nothing in main catches the exception.        *)
EmbedderRaises ==
    /\ pc = "identify"
    /\ SumSeq(samples) = 0
    /\ clips' = map_put(clips, diar_segments[spk_i].spk, 0)
    /\ identify_calls' = identify_calls + 1
    /\ pc' = "crashed"
    /\ exit_code' = 1
    /\ UNCHANGED <<rttm_file, transcript_file, sr, audio_len, SPEAKERS, threshold,
                   diar_segments, transcript, speaker_map, spk_i, seg_i, samples,
                   line_i, spk_ids, lines, output, query_dists, match_result>>
    /\ UNCHANGED <<clip_ranges, embedded, orc_vars>>

(* one iteration of the loop of main over the transcript *)
FuseLine ==
    /\ pc = "fuse"
    /\ line_i <= Len(transcript)
    /\ LET t == transcript[line_i]
           spk_id == find_speaker(t.start, t.end, diar_segments)
           spk_name == map_get(speaker_map, spk_id, spk_id)
       IN /\ spk_ids' = Append(spk_ids, spk_id)
          /\ lines' = append_line(lines, fused_line(t, spk_name))
    /\ line_i' = line_i + 1
    /\ UNCHANGED <<pc, rttm_file, transcript_file, sr, audio_len, SPEAKERS,
                   threshold, diar_segments, transcript, speaker_map, spk_i, seg_i,
                   samples, clips, identify_calls, output, exit_code,
                   query_dists, match_result>>
    /\ UNCHANGED <<clip_ranges, embedded, orc_vars>>

(* OUTPUT_FILE.write_text("\n".join(lines)) and the normal end of main *)
WriteOutput ==
    /\ pc = "fuse"
    /\ line_i > Len(transcript)
    /\ output' = lines
    /\ pc' = "done"
    /\ exit_code' = 0
    /\ UNCHANGED <<rttm_file, transcript_file, sr, audio_len, SPEAKERS, threshold,
                   diar_segments, transcript, speaker_map, spk_i, seg_i, samples,
                   clips, identify_calls, line_i, spk_ids, lines,
                   query_dists, match_result>>
    /\ UNCHANGED <<clip_ranges, embedded, orc_vars>>

Next ==
    \/ LoadRttm
    \/ LoadTranscript
    \/ ReadAudio
    \/ AppendSlice
    \/ Identify
    \/ EmbedderRaises
    \/ FuseLine
    \/ WriteOutput

Spec == Init /\ [][Next]_vars

----------------------------------------------------------------------------
(* States of main inside and after build_speaker_name_map, from which the   *)
(* specifications below start.                                               *)

spk_labels(segments) == {segments[k].spk : k \in 1..Len(segments)}

clips_of(segments, n) ==
    [l \in spk_labels(segments) |->
        LET k == CHOOSE k \in 1..Len(segments) : segments[k].spk = l
        IN SumSeq(accumulate(segments[k].segs, n, <<>>))]

as_line(t) == tline("arrow", t.start, t.end, t.text)

----------------------------------------------------------------------------
(* find_speaker and the fusion loop on richer diarizations: main from the   *)
(* point where the loop over the transcript starts.                          *)

AttrRecords ==
    { rec(10, s, d, l) : s \in {0, 5000}, d \in {5000, 10000}, l \in Labels }

AttrUtterances ==
    { [start |-> 4000, end |-> 6000, text |-> "x"],
      [start |-> 0, end |-> 4000, text |-> "x"],
      [start |-> 3000, end |-> 12000, text |-> "x"],
      [start |-> 5000, end |-> 5000, text |-> "x"],
      [start |-> 6000, end |-> 4000, text |-> "x"],
      [start |-> 20000, end |-> 21000, text |-> "x"] }

InitAttr ==
    /\ pc = "fuse"
    /\ rttm_file \in SeqsUpTo(AttrRecords, MaxSegs) \ {<<>>}
    /\ diar_segments = load_rttm(rttm_file)
    /\ transcript \in {<<u>> : u \in AttrUtterances}
    /\ transcript_file = <<as_line(transcript[1])>>
    /\ sr = SAMPLE_RATE
    /\ audio_len \in AudioLens
    /\ SPEAKERS = SubSeq(Names, 1, 2)
    /\ threshold = THRESHOLD
    /\ speaker_map = [l \in spk_labels(diar_segments) |-> "Unknown"]
    /\ spk_i = 1
    /\ seg_i = 1
    /\ samples = <<>>
    /\ clips = clips_of(diar_segments, audio_len)
    /\ identify_calls = Len(diar_segments)
    /\ line_i = 1
    /\ spk_ids = <<>>
    /\ lines = <<>>
    /\ output = NoFile
    /\ exit_code = Running
    /\ query_dists = <<>>
    /\ match_result = NoResult
    /\ clip_ranges = <<>>
    /\ embedded = EmptyMap
    /\ OrcIdle

NextAttr ==
    \/ FuseLine
    \/ WriteOutput

SpecAttr == InitAttr /\ [][NextAttr]_vars

----------------------------------------------------------------------------
(* build_speaker_name_map on richer diarizations: main from the point where *)
(* build_speaker_name_map is entered.                                        *)

EnrollRecords ==
    { rec(10, s, d, "SPEAKER_00") : s \in {0, 7500}, d \in {0, 7500, 16000} }
    \cup { rec(10, 0, 7500, "SPEAKER_01") }

InitEnroll ==
    /\ pc = "slice"
    /\ rttm_file \in SeqsUpTo(EnrollRecords, MaxEnrollSegs) \ {<<>>}
    /\ diar_segments = load_rttm(rttm_file)
    /\ transcript = <<[start |-> 0, end |-> 4000, text |-> "x"]>>
    /\ transcript_file = <<as_line(transcript[1])>>
    /\ sr = SAMPLE_RATE
    /\ audio_len \in AudioLens
    /\ SPEAKERS = SubSeq(Names, 1, 2)
    /\ threshold = THRESHOLD
    /\ speaker_map = EmptyMap
    /\ spk_i = 1
    /\ seg_i = 1
    /\ samples = <<>>
    /\ clips = EmptyMap
    /\ identify_calls = 0
    /\ line_i = 1
    /\ spk_ids = <<>>
    /\ lines = <<>>
    /\ output = NoFile
    /\ exit_code = Running
    /\ query_dists = <<>>
    /\ match_result = NoResult
    /\ clip_ranges = <<>>
    /\ embedded = EmptyMap
    /\ OrcIdle

NextEnroll ==
    \/ AppendSlice
    \/ Identify
    \/ EmbedderRaises

SpecEnroll == InitEnroll /\ [][NextEnroll]_vars

----------------------------------------------------------------------------
(* build_speaker_name_map with the encoder a function of the clip: the      *)
(* distances of a clip are drawn the first time the clip is embedded and    *)
(* are the same every later time. A clip is the sequence of the sample      *)
(* ranges of the audio it concatenates. The labels are resolved in the      *)
(* order of their first record in the file, so both orders occur.           *)

OrderDists == {30, 120}

OrderRecords ==
    { rec(10, s, 7500, l) : s \in {0, 7500}, l \in Labels }
    \cup { rec(10, 0, 0, "SPEAKER_00") }

InitOrder ==
    /\ pc = "slice"
    /\ rttm_file \in SeqsUpTo(OrderRecords, MaxEnrollSegs) \ {<<>>}
    /\ diar_segments = load_rttm(rttm_file)
    /\ transcript = <<[start |-> 0, end |-> 4000, text |-> "x"]>>
    /\ transcript_file = <<as_line(transcript[1])>>
    /\ sr = SAMPLE_RATE
    /\ audio_len \in AudioLens
    /\ SPEAKERS = SubSeq(Names, 1, 2)
    /\ threshold = THRESHOLD
    /\ speaker_map = EmptyMap
    /\ spk_i = 1
    /\ seg_i = 1
    /\ samples = <<>>
    /\ clips = EmptyMap
    /\ identify_calls = 0
    /\ line_i = 1
    /\ spk_ids = <<>>
    /\ lines = <<>>
    /\ output = NoFile
    /\ exit_code = Running
    /\ query_dists = <<>>
    /\ match_result = NoResult
    /\ clip_ranges = <<>>
    /\ embedded = EmptyMap
    /\ OrcIdle

(* np.concatenate, identify_speaker(clip) returning, speaker_map[spk] = name *)
IdentifyDet ==
    /\ pc = "identify"
    /\ \E dists \in [1..Len(SPEAKERS) -> OrderDists] :
          /\ clip_ranges \in DOMAIN embedded => dists = embedded[clip_ranges]
          /\ embedded' = map_put(embedded, clip_ranges, dists)
          /\ speaker_map' = map_put(speaker_map, diar_segments[spk_i].spk,
                                    identify_speaker(dists, SPEAKERS, threshold)[1])
    /\ clips' = map_put(clips, diar_segments[spk_i].spk, SumSeq(samples))
    /\ identify_calls' = identify_calls + 1
    /\ samples' = fresh_list(samples)
    /\ clip_ranges' = fresh_list(clip_ranges)
    /\ seg_i' = 1
    /\ IF spk_i < Len(diar_segments)
       THEN pc' = "slice" /\ spk_i' = spk_i + 1
       ELSE pc' = "fuse" /\ spk_i' = 1
    /\ UNCHANGED <<rttm_file, transcript_file, sr, audio_len, SPEAKERS, threshold,
                   diar_segments, transcript, line_i, spk_ids, lines, output,
                   exit_code, query_dists, match_result>>
    /\ UNCHANGED orc_vars

NextOrder ==
    \/ AppendSlice
    \/ IdentifyDet
    \/ EmbedderRaises

SpecOrder == InitOrder /\ [][NextOrder]_vars

----------------------------------------------------------------------------
(* identify_speaker as a function of the distances, the enrollment and the  *)
(* threshold.                                                                *)

InitMatch ==
    /\ pc = "match"
    /\ rttm_file = <<>>
    /\ transcript_file = <<>>
    /\ sr = SAMPLE_RATE
    /\ audio_len \in AudioLens
    /\ SPEAKERS \in {SubSeq(Names, 1, n) : n \in 0..MaxEnroll}
    /\ query_dists \in DistVectors(SPEAKERS)
    /\ threshold \in Thresholds
    /\ diar_segments = <<>>
    /\ transcript = <<>>
    /\ speaker_map = EmptyMap
    /\ spk_i = 1
    /\ seg_i = 1
    /\ samples = <<>>
    /\ clips = EmptyMap
    /\ identify_calls = 0
    /\ line_i = 1
    /\ spk_ids = <<>>
    /\ lines = <<>>
    /\ output = NoFile
    /\ exit_code = Running
    /\ match_result = NoResult
    /\ clip_ranges = <<>>
    /\ embedded = EmptyMap
    /\ OrcIdle

Match ==
    /\ pc = "match"
    /\ match_result' = identify_speaker(query_dists, SPEAKERS, threshold)
    /\ identify_calls' = identify_calls + 1
    /\ pc' = "matched"
    /\ UNCHANGED <<rttm_file, transcript_file, sr, audio_len, SPEAKERS, threshold,
                   diar_segments, transcript, speaker_map, spk_i, seg_i, samples,
                   clips, line_i, spk_ids, lines, output, exit_code, query_dists>>
    /\ UNCHANGED <<clip_ranges, embedded, orc_vars>>

NextMatch == Match

SpecMatch == InitMatch /\ [][NextMatch]_vars

----------------------------------------------------------------------------
(* orcastrate.py, step 3: load_rttm, load_transcript, find_speaker and the   *)
(* loop that writes the speaker transcript.                                  *)

OrcMinFields == 9

orc_rttm_valid(parts) == ~(parts.nf < OrcMinFields)

RECURSIVE orc_load_rttm(_)
orc_load_rttm(file) ==
    IF file = <<>> THEN <<>>
    ELSE LET parts == Head(file) IN
         IF orc_rttm_valid(parts)
         THEN <<[start |-> parts.start, end |-> parts.start + parts.dur,
                 speaker |-> parts.spk]>> \o orc_load_rttm(Tail(file))
         ELSE orc_load_rttm(Tail(file))

(* the pattern: "[", a number with decimals, the arrow, a number with      *)
(* decimals, "]", then any text, possibly empty                              *)
orc_line_matches(l) == l.sep = "arrow" /\ ~l.pad /\ l.frac

RECURSIVE orc_load_transcript(_)
orc_load_transcript(file) ==
    IF file = <<>> THEN <<>>
    ELSE LET l == Head(file) IN
         IF orc_line_matches(l)
         THEN <<[start |-> l.start, end |-> l.end, text |-> l.text]>>
              \o orc_load_transcript(Tail(file))
         ELSE orc_load_transcript(Tail(file))

contains(d, start) == d.start <= start /\ start <= d.end

RECURSIVE orc_find_speaker(_, _)
orc_find_speaker(start, diarization) ==
    IF diarization = <<>> THEN "UNKNOWN"
    ELSE IF contains(Head(diarization), start)
         THEN Head(diarization).speaker
         ELSE orc_find_speaker(start, Tail(diarization))

OrcLoadRttm ==
    /\ orc_pc = "load_rttm"
    /\ diar' = orc_load_rttm(rttm_file)
    /\ orc_pc' = "load_transcript"
    /\ UNCHANGED <<pc, rttm_file, transcript_file, sr, audio_len, SPEAKERS,
                   threshold, diar_segments, transcript, speaker_map, spk_i, seg_i,
                   samples, clips, identify_calls, line_i, spk_ids, lines, output,
                   exit_code, query_dists, match_result, clip_ranges, embedded,
                   trans, orc_speakers, orc_lines, orc_output>>

OrcLoadTranscript ==
    /\ orc_pc = "load_transcript"
    /\ trans' = orc_load_transcript(transcript_file)
    /\ orc_pc' = "fuse"
    /\ UNCHANGED <<pc, rttm_file, transcript_file, sr, audio_len, SPEAKERS,
                   threshold, diar_segments, transcript, speaker_map, spk_i, seg_i,
                   samples, clips, identify_calls, line_i, spk_ids, lines, output,
                   exit_code, query_dists, match_result, clip_ranges, embedded,
                   diar, orc_speakers, orc_lines, orc_output>>

(* one iteration of `for t in trans` *)
OrcFuseLine ==
    /\ orc_pc = "fuse"
    /\ Len(orc_lines) < Len(trans)
    /\ LET t == trans[Len(orc_lines) + 1]
           speaker == orc_find_speaker(t.start, diar)
       IN /\ orc_speakers' = Append(orc_speakers, speaker)
          /\ orc_lines' = Append(orc_lines, fused_line(t, speaker))
    /\ UNCHANGED <<pc, rttm_file, transcript_file, sr, audio_len, SPEAKERS,
                   threshold, diar_segments, transcript, speaker_map, spk_i, seg_i,
                   samples, clips, identify_calls, line_i, spk_ids, lines, output,
                   exit_code, query_dists, match_result, clip_ranges, embedded,
                   orc_pc, diar, trans, orc_output>>

(* f.write("\n".join(lines)) *)
OrcWrite ==
    /\ orc_pc = "fuse"
    /\ Len(orc_lines) = Len(trans)
    /\ orc_output' = orc_lines
    /\ orc_pc' = "done"
    /\ UNCHANGED <<pc, rttm_file, transcript_file, sr, audio_len, SPEAKERS,
                   threshold, diar_segments, transcript, speaker_map, spk_i, seg_i,
                   samples, clips, identify_calls, line_i, spk_ids, lines, output,
                   exit_code, query_dists, match_result, clip_ranges, embedded,
                   diar, trans, orc_speakers, orc_lines>>

----------------------------------------------------------------------------
(* The two parsers of each file, run on the same files.                      *)

ParseRecords ==
    { rec(7, 0, 5000, "SPEAKER_00"),
      rec(8, 0, 5000, "SPEAKER_00"),
      rec(9, 5000, 5000, "SPEAKER_01"),
      rec(10, 0, 5000, "SPEAKER_01"),
      rec(10, 3000, -1000, "SPEAKER_00"),
      rec(10, -1000, 2000, "SPEAKER_01") }

ParseLines ==
    { tline(g, 0, 4000, "a") : g \in ArrowGlyphs }
    \cup { tline("none", 0, 4000, "a"),
           tline("hyphen", 6000, 4000, "b"),
           tline("arrow", 0, 4000, ""),
           [tline("arrow", 0, 4000, "a") EXCEPT !.pad = TRUE],
           [tline("arrow", 0, 4000, "a") EXCEPT !.frac = FALSE] }

InitParse ==
    /\ pc = "load_rttm"
    /\ rttm_file \in SeqsUpTo(ParseRecords, MaxRttm)
    /\ transcript_file \in SeqsUpTo(ParseLines, MaxTranscript)
    /\ sr = SAMPLE_RATE
    /\ audio_len = 20 * SAMPLE_RATE
    /\ SPEAKERS = SubSeq(Names, 1, 2)
    /\ threshold = THRESHOLD
    /\ diar_segments = <<>>
    /\ transcript = <<>>
    /\ speaker_map = EmptyMap
    /\ spk_i = 1
    /\ seg_i = 1
    /\ samples = <<>>
    /\ clips = EmptyMap
    /\ identify_calls = 0
    /\ line_i = 1
    /\ spk_ids = <<>>
    /\ lines = <<>>
    /\ output = NoFile
    /\ exit_code = Running
    /\ query_dists = <<>>
    /\ match_result = NoResult
    /\ clip_ranges = <<>>
    /\ embedded = EmptyMap
    /\ orc_pc = "load_rttm"
    /\ diar = <<>>
    /\ trans = <<>>
    /\ orc_speakers = <<>>
    /\ orc_lines = <<>>
    /\ orc_output = NoFile

NextParse ==
    \/ LoadRttm
    \/ LoadTranscript
    \/ OrcLoadRttm
    \/ OrcLoadTranscript

SpecParse == InitParse /\ [][NextParse]_vars

----------------------------------------------------------------------------
(* The two fusion loops, of buildspeakertraans.py and of orcastrate.py, run  *)
(* on the same diarization and the same transcript.                           *)

InitBoth ==
    /\ pc = "fuse"
    /\ rttm_file \in SeqsUpTo(AttrRecords, MaxSegs) \ {<<>>}
    /\ diar_segments = load_rttm(rttm_file)
    /\ transcript \in {<<u>> : u \in AttrUtterances}
    /\ transcript_file = <<as_line(transcript[1])>>
    /\ sr = SAMPLE_RATE
    /\ audio_len = 20 * SAMPLE_RATE
    /\ SPEAKERS = SubSeq(Names, 1, 2)
    /\ threshold = THRESHOLD
    /\ speaker_map = [l \in spk_labels(diar_segments) |-> "Unknown"]
    /\ spk_i = 1
    /\ seg_i = 1
    /\ samples = <<>>
    /\ clips = clips_of(diar_segments, audio_len)
    /\ identify_calls = Len(diar_segments)
    /\ line_i = 1
    /\ spk_ids = <<>>
    /\ lines = <<>>
    /\ output = NoFile
    /\ exit_code = Running
    /\ query_dists = <<>>
    /\ match_result = NoResult
    /\ clip_ranges = <<>>
    /\ embedded = EmptyMap
    /\ orc_pc = "fuse"
    /\ diar = orc_load_rttm(rttm_file)
    /\ trans = orc_load_transcript(transcript_file)
    /\ orc_speakers = <<>>
    /\ orc_lines = <<>>
    /\ orc_output = NoFile

NextBoth ==
    \/ FuseLine
    \/ WriteOutput
    \/ OrcFuseLine
    \/ OrcWrite

SpecBoth == InitBoth /\ [][NextBoth]_vars

----------------------------------------------------------------------------
(* Properties *)

(* positions <<k, j>> of the diarized intervals: label k, interval j *)
Positions ==
    UNION {{<<k, j>> : j \in 1..Len(diar_segments[k].segs)} :
              k \in 1..Len(diar_segments)}

(* min(end, e) - max(start, s), written out *)
Ov(t, p) ==
    LET iv == diar_segments[p[1]].segs[p[2]]
        hi == IF t.end < iv[2] THEN t.end ELSE iv[2]
        lo == IF t.start > iv[1] THEN t.start ELSE iv[1]
    IN hi - lo

(* iteration order of find_speaker: labels in mapping order, then intervals *)
Before(p, q) == p[1] < q[1] \/ (p[1] = q[1] /\ p[2] < q[2])

MaxPositions(t) ==
    {p \in Positions : Ov(t, p) > 0 /\ \A q \in Positions : Ov(t, q) <= Ov(t, p)}

(* C1: find_speaker returns a label owning an interval whose overlap with the *)
(* utterance is positive and maximal over all intervals of all labels, and    *)
(* returns "UNKNOWN" exactly when no interval has positive overlap.           *)
C1_MaxOverlapLabel ==
    \A i \in 1..Len(spk_ids) :
        LET t == transcript[i] IN
        IF MaxPositions(t) = {}
        THEN spk_ids[i] = "UNKNOWN"
        ELSE /\ spk_ids[i] # "UNKNOWN"
             /\ \E p \in MaxPositions(t) : diar_segments[p[1]].spk = spk_ids[i]

(* an utterance attributed to the second label although an interval of the    *)
(* first label overlaps it too, by less                                       *)
C1_Witness ==
    /\ Len(spk_ids) = 1
    /\ Len(diar_segments) = 2
    /\ spk_ids[1] = diar_segments[2].spk
    /\ \E p \in Positions : p[1] = 1 /\ Ov(transcript[1], p) > 0

(* C2: among intervals sharing the maximum positive overlap, find_speaker     *)
(* returns the label of the first one in iteration order.                     *)
C2_FirstSeenTieWins ==
    \A i \in 1..Len(spk_ids) :
        LET t == transcript[i] IN
        \A p \in MaxPositions(t) :
            (\A q \in MaxPositions(t) : q = p \/ Before(p, q))
                => spk_ids[i] = diar_segments[p[1]].spk

(* two intervals of different labels tie at the maximum, the first one wins   *)
C2_Witness ==
    /\ Len(spk_ids) = 1
    /\ \E p, q \in MaxPositions(transcript[1]) : p[1] = 1 /\ q[1] = 2
    /\ spk_ids[1] = diar_segments[1].spk

(* C3: the fused output has one line per utterance, the i-th line carrying    *)
(* the start and end (rendered to two decimals) and the text of the i-th      *)
(* utterance; nothing is dropped, duplicated, merged or reordered.            *)
C3_OneLinePerUtterance ==
    /\ Len(lines) <= Len(transcript)
    /\ pc = "fuse" => Len(lines) = line_i - 1
    /\ \A i \in 1..Len(lines) :
          /\ lines[i].start = fmt2(transcript[i].start)
          /\ lines[i].end = fmt2(transcript[i].end)
          /\ lines[i].text = transcript[i].text
    /\ output # NoFile => output = lines /\ Len(output) = Len(transcript)

(* a written output of two lines, one of them for an "UNKNOWN" utterance      *)
C3_Witness ==
    /\ output # NoFile
    /\ Len(output) = 2
    /\ \E i \in 1..2 : spk_ids[i] = "UNKNOWN"
    /\ \E i \in 1..2 : spk_ids[i] # "UNKNOWN"

(* C4: the displayed name is identity_map[label] when the label is a key of   *)
(* the identity map and the raw label otherwise; "UNKNOWN" is displayed as    *)
(* "UNKNOWN", and the fusion loop never fails.                                *)
C4_DisplayName ==
    /\ \A i \in 1..Len(lines) :
          /\ spk_ids[i] \in DOMAIN speaker_map => lines[i].name = speaker_map[spk_ids[i]]
          /\ spk_ids[i] \notin DOMAIN speaker_map => lines[i].name = spk_ids[i]
          /\ spk_ids[i] = "UNKNOWN" => lines[i].name = "UNKNOWN"
    /\ Len(lines) > 0 => pc \in {"fuse", "done"}
    /\ (pc = "fuse" /\ line_i <= Len(transcript)) => ENABLED FuseLine

(* one line named from the identity map and one falling back to "UNKNOWN"     *)
C4_Witness ==
    /\ pc = "done"
    /\ \E i \in 1..Len(lines) : spk_ids[i] = "UNKNOWN" /\ lines[i].name = "UNKNOWN"
    /\ \E i \in 1..Len(lines) : spk_ids[i] \in DOMAIN speaker_map /\ lines[i].name = "Alice"

(* the minimum distance over the enrollment, and the first entry attaining it *)
MinDist ==
    CHOOSE d \in {query_dists[i] : i \in 1..Len(SPEAKERS)} :
        \A i \in 1..Len(SPEAKERS) : d <= query_dists[i]

FirstArgMin ==
    CHOOSE i \in 1..Len(SPEAKERS) :
        /\ query_dists[i] = MinDist
        /\ \A j \in 1..(i - 1) : query_dists[j] # MinDist

Matched == pc = "matched" /\ Len(SPEAKERS) >= 1

(* C5: for any threshold in [0,2] and any non-empty enrollment, a minimum      *)
(* distance not exceeding the threshold makes identify_speaker return the      *)
(* name of the first entry at that minimum.                                    *)
C5_AcceptedWithinThreshold ==
    (Matched /\ MinDist <= threshold) => match_result[1] = SPEAKERS[FirstArgMin]

(* C6: a minimum distance d exceeding the threshold makes identify_speaker     *)
(* return ("Unknown", d), for every d in [0,2] (stated here at the configured  *)
(* threshold).                                                                 *)
C6_RejectedScoreIsMinimum ==
    (Matched /\ threshold = THRESHOLD /\ MinDist > threshold)
        => match_result = <<"Unknown", MinDist>>

(* C7 as stated: at the configured threshold, a nearest reference at exactly   *)
(* the threshold is rejected and one strictly below it is accepted.            *)
C7_BoundaryRejected ==
    (Matched /\ threshold = THRESHOLD) =>
        /\ MinDist = threshold => match_result[1] = "Unknown"
        /\ MinDist < threshold => match_result[1] = SPEAKERS[FirstArgMin]

(* C7, amended: at the configured threshold, a nearest reference at exactly    *)
(* the threshold or strictly below it is accepted with that reference's name;  *)
(* only a distance strictly above the threshold is rejected.                   *)
C7_BoundaryAccepted ==
    (Matched /\ threshold = THRESHOLD) =>
        /\ MinDist = threshold => match_result = <<SPEAKERS[FirstArgMin], threshold>>
        /\ MinDist < threshold => match_result[1] = SPEAKERS[FirstArgMin]
        /\ MinDist > threshold => match_result[1] = "Unknown"

(* the nearest reference lies exactly at the configured threshold and its      *)
(* name is returned                                                            *)
C7_Witness ==
    /\ Matched
    /\ threshold = THRESHOLD
    /\ MinDist = THRESHOLD
    /\ match_result[1] = SPEAKERS[FirstArgMin]

(* number of samples of the slice audio[int(s*SR):int(e*SR)] of an interval   *)
(* with 0 <= s, written out                                                    *)
SliceSamples(iv) ==
    LET n == audio_len
        a == IF 16 * iv[1] < n THEN 16 * iv[1] ELSE n
        b == IF 16 * iv[2] < n THEN 16 * iv[2] ELSE n
    IN IF b > a THEN b - a ELSE 0

RECURSIVE PrefixSamples(_, _)
PrefixSamples(segs, k) ==
    IF k = 0 THEN 0 ELSE PrefixSamples(segs, k - 1) + SliceSamples(segs[k])

(* k intervals of segs were consumed under the 15 s cap (240000 samples) *)
ConsumedUnderCap(segs, k) ==
    /\ k \in 1..Len(segs)
    /\ PrefixSamples(segs, k - 1) <= 240000
    /\ k < Len(segs) => PrefixSamples(segs, k) > 240000

SegsOf(l) ==
    diar_segments[CHOOSE k \in 1..Len(diar_segments) : diar_segments[k].spk = l].segs

(* C8: per label, intervals are consumed in stored order; before each append  *)
(* the cumulative count is at most the cap; consumption stops after the first *)
(* interval at which the count exceeds the cap, otherwise every interval is   *)
(* consumed; the clip is the whole of what was accumulated.                   *)
C8_CapAfterAppend ==
    /\ pc \in {"slice", "identify"} =>
          LET segs == diar_segments[spk_i].segs IN
          /\ Len(samples) <= Len(segs)
          /\ \A j \in 1..Len(samples) : samples[j] = SliceSamples(segs[j])
          /\ pc = "slice" => Len(samples) = seg_i - 1 /\ SumSeq(samples) <= 240000
          /\ pc = "identify" => ConsumedUnderCap(segs, Len(samples))
    /\ \A l \in DOMAIN clips :
          \E k \in 1..Len(SegsOf(l)) :
              /\ ConsumedUnderCap(SegsOf(l), k)
              /\ clips[l] = PrefixSamples(SegsOf(l), k)

(* a label of three intervals whose count passes the cap at the second: the   *)
(* clip is longer than the cap and the third interval is not consumed         *)
C8_Witness ==
    /\ pc = "identify"
    /\ Len(diar_segments[spk_i].segs) = 3
    /\ Len(samples) = 2
    /\ samples[1] > 0
    /\ SumSeq(samples) > 240000

(* C9: a label whose accumulated voice sample is empty is resolved to          *)
(* "Unknown" and resolution continues for the remaining labels; the run is     *)
(* never aborted by it.                                                        *)
C9_EmptySampleIsUnknown ==
    /\ pc # "crashed"
    /\ \A l \in DOMAIN speaker_map : clips[l] = 0 => speaker_map[l] = "Unknown"

(* the three preconditions of main, in terms of the input files *)
HasValidRecord == \E i \in 1..Len(rttm_file) : rttm_file[i].nf >= 8

HasUtterance ==
    \E i \in 1..Len(transcript_file) :
        transcript_file[i].sep \in ArrowGlyphs /\ transcript_file[i].text # ""

RateOk == sr = 16000

(* C10: the output is written only when diarization yielded a segment, the    *)
(* transcript yielded an utterance and the sample rate was 16000 Hz; when one *)
(* of the three fails the run ends with a nonzero exit, before any speaker    *)
(* identification and without any output.                                     *)
C10_PreconditionsGateOutput ==
    /\ output # NoFile => HasValidRecord /\ HasUtterance /\ RateOk
    /\ ~(HasValidRecord /\ HasUtterance /\ RateOk) =>
          /\ pc \in {"load_rttm", "load_transcript", "read_audio", "exit"}
          /\ identify_calls = 0
          /\ output = NoFile
          /\ lines = <<>>
          /\ pc = "exit" => exit_code = 1
          /\ pc # "exit" => ENABLED Next
    /\ pc = "exit" => ~(HasValidRecord /\ HasUtterance /\ RateOk)

(* both files parsed, the sample rate is wrong, the run has exited with 1     *)
C10_Witness ==
    /\ pc = "exit"
    /\ exit_code = 1
    /\ Len(diar_segments) >= 1
    /\ Len(transcript) >= 1
    /\ sr # 16000
    /\ output = NoFile

(* the intervals the valid records of the file give to label l, in file order *)
RECURSIVE ValidIntervals(_, _)
ValidIntervals(file, l) ==
    IF file = <<>> THEN <<>>
    ELSE (IF Head(file).nf >= 8 /\ Head(file).spk = l
          THEN <<<<Head(file).start, Head(file).start + Head(file).dur>>>>
          ELSE <<>>) \o ValidIntervals(Tail(file), l)

ValidCount == Cardinality({i \in 1..Len(rttm_file) : rttm_file[i].nf >= 8})

RttmParsed == pc \notin {"load_rttm"}

OrcRttmParsed == orc_pc \notin {"idle", "load_rttm"}

(* the claim for load_rttm of buildspeakertraans.py *)
StoredAllValid ==
    (RttmParsed /\ ValidCount >= 1) =>
        /\ SumSeq([k \in 1..Len(diar_segments) |-> Len(diar_segments[k].segs)])
              = ValidCount
        /\ \A k \in 1..Len(diar_segments) :
              diar_segments[k].segs = ValidIntervals(rttm_file, diar_segments[k].spk)
        /\ \A l \in Labels :
              ValidIntervals(rttm_file, l) # <<>> => l \in spk_labels(diar_segments)

(* the claim for load_rttm of orcastrate.py *)
OrcStoredAllValid ==
    (OrcRttmParsed /\ ValidCount >= 1) =>
        /\ Len(diar) = ValidCount
        /\ \A l \in Labels :
              ValidIntervals(rttm_file, l) =
                 ValidIntervals([i \in 1..Len(diar) |->
                                    [nf |-> 8, start |-> diar[i].start,
                                     dur |-> diar[i].end - diar[i].start,
                                     spk |-> diar[i].speaker]], l)

(* C11: when the input has a record of 8 or more fields, load_rttm stores one *)
(* interval (field 4, field 4 + field 5) per such record, under the label of  *)
(* field 8 and in file order; shorter records are skipped.                    *)
C11_IntervalPerValidRecord == StoredAllValid /\ OrcStoredAllValid

(* C12: every stored diarized interval has end >= start >= 0, and every       *)
(* parsed utterance has end >= start and a non-empty text.                     *)
C12_ParsedIntervalsWellFormed ==
    /\ \A k \in 1..Len(diar_segments) :
          \A j \in 1..Len(diar_segments[k].segs) :
              LET iv == diar_segments[k].segs[j] IN iv[2] >= iv[1] /\ iv[1] >= 0
    /\ \A i \in 1..Len(transcript) :
          transcript[i].end >= transcript[i].start /\ transcript[i].text # ""

(* the part of C12 the code does guarantee: a parsed utterance has a text *)
ParsedTextNonEmpty == \A i \in 1..Len(transcript) : transcript[i].text # ""

(* the triples of the lines made of a bracketed range, written with any of    *)
(* the four separators, followed by a text                                     *)
RECURSIVE RangeLines(_)
RangeLines(file) ==
    IF file = <<>> THEN <<>>
    ELSE (IF Head(file).sep \in {"arrow", "ascii_arrow", "en_dash", "hyphen"}
             /\ Head(file).text # ""
          THEN <<[start |-> Head(file).start, end |-> Head(file).end,
                  text |-> Head(file).text]>>
          ELSE <<>>) \o RangeLines(Tail(file))

(* every line is laid out the way both patterns allow: no blank after "[",    *)
(* numbers with decimals, a text                                               *)
PlainLayout ==
    \A i \in 1..Len(transcript_file) :
        /\ ~transcript_file[i].pad
        /\ transcript_file[i].frac
        /\ transcript_file[i].text # ""

(* the claim for load_transcript of buildspeakertraans.py *)
GlyphsEquivalent ==
    (pc = "read_audio" \/ (pc = "exit" /\ diar_segments # <<>>)) =>
        transcript = RangeLines(transcript_file)

(* the claim for load_transcript of orcastrate.py *)
OrcGlyphsEquivalent ==
    (orc_pc \notin {"idle", "load_rttm", "load_transcript"} /\ PlainLayout) =>
        trans = RangeLines(transcript_file)

(* C14: lines differing only in the range separator (one of the four) are all *)
(* accepted by load_transcript and give the same (start, end, text); a line   *)
(* that does not match the pattern is skipped.                                *)
C14_ArrowGlyphEquivalence == GlyphsEquivalent /\ OrcGlyphsEquivalent

(* the clip build_speaker_name_map concatenates for label l, worked out from  *)
(* the intervals of l and the audio alone                                      *)
OwnClip(l) ==
    LET k == CHOOSE k \in 1..Len(diar_segments) : diar_segments[k].spk = l
        segs == diar_segments[k].segs
        m == Len(accumulate(segs, audio_len, <<>>))
    IN [j \in 1..m |-> slice_range(to_sample(segs[j][1]), to_sample(segs[j][2]),
                                   audio_len)]

(* C13: whatever the order in which the labels are resolved, the entry of a   *)
(* label is the name identify_speaker gives for the clip made of that label's *)
(* own intervals and the audio, matched against the enrollment set.           *)
C13_EntryFromOwnIntervals ==
    \A l \in DOMAIN speaker_map :
        /\ OwnClip(l) \in DOMAIN embedded
        /\ speaker_map[l] =
              identify_speaker(embedded[OwnClip(l)], SPEAKERS, threshold)[1]

(* both labels resolved, SPEAKER_01 first, after a record of SPEAKER_00 came  *)
(* between two records of SPEAKER_01, and given different names               *)
C13_Witness ==
    /\ pc = "fuse"
    /\ Len(diar_segments) = 2
    /\ diar_segments[1].spk = "SPEAKER_01"
    /\ Len(diar_segments[1].segs) = 2
    /\ rttm_file[2].spk = "SPEAKER_00"
    /\ DOMAIN speaker_map = {"SPEAKER_00", "SPEAKER_01"}
    /\ speaker_map["SPEAKER_00"] = "Alice"
    /\ speaker_map["SPEAKER_01"] = "Unknown"

(* the start of utterance t lies inside no diarized interval, and some        *)
(* interval overlaps t                                                        *)
StartsInGap(t) ==
    /\ \A p \in Positions :
          LET iv == diar_segments[p[1]].segs[p[2]]
          IN ~(iv[1] <= t.start /\ t.start <= iv[2])
    /\ MaxPositions(t) # {}

(* the claim for the loop of buildspeakertraans.py *)
FusionUsesOverlap ==
    \A i \in 1..Len(spk_ids) :
        StartsInGap(transcript[i]) =>
            \E p \in MaxPositions(transcript[i]) :
                spk_ids[i] = diar_segments[p[1]].spk

(* the claim for the loop of orcastrate.py *)
OrcUsesOverlap ==
    \A i \in 1..Len(orc_speakers) :
        StartsInGap(trans[i]) =>
            \E p \in MaxPositions(trans[i]) :
                orc_speakers[i] = diar_segments[p[1]].spk

(* the two find_speaker give the same label to the same utterance *)
FindSpeakersAgree ==
    \A i \in 1..Len(spk_ids) :
        i <= Len(orc_speakers) => orc_speakers[i] = spk_ids[i]

(* C15: in both pipelines an utterance that starts in a gap and overlaps some *)
(* interval gets the label of largest overlap, not "UNKNOWN", and the two     *)
(* find_speaker return the same label on every input.                         *)
C15_OverlapPolicyEverywhere ==
    FusionUsesOverlap /\ OrcUsesOverlap /\ FindSpeakersAgree

(* C16: an utterance whose start equals its end is attributed to "UNKNOWN" by *)
(* find_speaker, whatever the diarized intervals are, also when its time      *)
(* point lies strictly inside one of them.                                    *)
C16_ZeroLengthIsUnknown ==
    \A i \in 1..Len(spk_ids) :
        transcript[i].start = transcript[i].end => spk_ids[i] = "UNKNOWN"

(* a zero-length utterance strictly inside a diarized interval, attributed *)
C16_Witness ==
    /\ Len(spk_ids) = 1
    /\ transcript[1].start = transcript[1].end
    /\ \E p \in Positions :
          LET iv == diar_segments[p[1]].segs[p[2]]
          IN iv[1] < transcript[1].start /\ transcript[1].start < iv[2]
    /\ spk_ids[1] = "UNKNOWN"

====
